---- MODULE Spec2Model ----
(***************************************************************************)
(* A model of src/client.c: the AF_XDP UDP client.                         *)
(*                                                                         *)
(*  - the frame allocator (client.frames[], client.num_frames,             *)
(*    client_alloc_frame, client_free_frame, the initialisation loop at    *)
(*    the end of client_init);                                             *)
(*  - main, its poll loop, the signal handlers and client_update, one      *)
(*    action per statement that touches shared state;                      *)
(*  - the four descriptor rings.  Their primitives (xsk_ring_prod__reserve,*)
(*    xsk_ring_prod__submit, xsk_ring_cons__peek, xsk_ring_cons__release)  *)
(*    and the kernel on the other side of them are not part of the source  *)
(*    file; they are modelled from the ring contract of the specification. *)
(***************************************************************************)
EXTENDS Integers, Sequences, FiniteSets, TLC

(***************************************************************************)
(* Program constants.  NUM_FRAMES and NUM_DESCS are scaled down from 4096  *)
(* and XSK_RING_CONS__DEFAULT_NUM_DESCS; NUM_FRAMES > NUM_DESCS so that a  *)
(* ring can be full while the pool still has frames.  INVALID_FRAME is     *)
(* UINT64_MAX in the source; -1 stands for it (it is only ever compared    *)
(* for equality, and it is no multiple of FRAME_SIZE inside the buffer).   *)
(***************************************************************************)
NUM_FRAMES == 4

FRAME_SIZE == 4096

INVALID_FRAME == -1

NUM_DESCS == 2

\* Bound on the number of packets the transmit path queues in one run.
MaxPackets == 5

\* Bound on the number of allocator calls a caller of the pool makes.
MaxCalls == 7

VARIABLES
    frames,          \* client.frames[NUM_FRAMES]
    num_frames,      \* client.num_frames
    rings,           \* the four rings: producer index, consumer index, slots
    pc,              \* where main is
    quit,            \* volatile bool quit
    exit_code,       \* what main returned (-1 while it runs)
    cleanups,        \* how many times cleanup() ran
    complete_index,  \* client_update: local complete_index
    completed,       \* client_update: local completed
    i,               \* client_update: loop counter
    tx_idx,          \* transmit path: slot index granted by reserve
    tx_addr,         \* transmit path: frame being queued
    kpc,             \* kernel: "idle", or "written" (completion slot written,
                     \* not yet published)
    log,             \* history: the descriptor each submit published, in order
    reads,           \* history: <<index, value>> read by each ring's consumer
    live,            \* pool callers: live allocations per frame
    calls,           \* pool callers: history of the allocator calls made
    client,          \* client.program, attached_native, attached_skb, buffer,
                     \* umem, xsk: which resources the process holds
    init,            \* client_init: next step, steps run, the step that failed
    phases,          \* history: what the current client_update has done so far
    peeked,          \* history: pool size and consumer index at the last peek
    step_start       \* history: pool and rings when the current poll-loop
                     \* iteration began with nothing in flight

vars == <<frames, num_frames, rings, pc, quit, exit_code, cleanups,
          complete_index, completed, i, tx_idx, tx_addr, kpc, log, reads,
          live, calls, client, init, phases, peeked, step_start>>

poolVars == <<frames, num_frames>>
updateVars == <<complete_index, completed, i>>
txVars == <<tx_idx, tx_addr>>
mainVars == <<quit, exit_code, cleanups>>
callerVars == <<live, calls>>
initVars == <<client, init>>
histVars == <<phases, peeked, step_start>>

----------------------------------------------------------------------------
(* Frames *)

FrameIndex == 0 .. (NUM_FRAMES - 1)

\* The N offsets client_init writes: i * FRAME_SIZE.
FrameOffset(k) == k * FRAME_SIZE

AllFrames == { FrameOffset(k) : k \in FrameIndex }

Min(a, b) == IF a < b THEN a ELSE b

\* static struct client_t client: zero-initialised.
ZeroFrames == [k \in FrameIndex |-> 0]

\* Variant: the loop starts one frame late, so the last offset is past the
\* end of the buffer.
InitFramesShifted == [k \in FrameIndex |-> FrameOffset(k + 1)]

\* The frame allocator initialisation loop of client_init.
InitFrames == [k \in FrameIndex |-> FrameOffset(k)]

\* The pool's free set: frames[0 .. num_frames).
FreeSetOf(fr, n) == { fr[k] : k \in 0 .. (n - 1) }

FreeSet == FreeSetOf(frames, num_frames)

\* How often f occurs in fr[0 .. n), and in the pool's free set.
CountIn(fr, n, f) == Cardinality({ k \in 0 .. (n - 1) : fr[k] = f })

FreeCount(f) == CountIn(frames, num_frames, f)

----------------------------------------------------------------------------
(* client_alloc_frame / client_free_frame, as functions of the pool *)

\* Variant: the frame is returned but stays on the stack.
alloc_without_pop(fr, n) ==
    IF n = 0
    THEN [frames |-> fr, num_frames |-> n, ret |-> INVALID_FRAME]
    ELSE [frames |-> fr, num_frames |-> n, ret |-> fr[n - 1]]

\* Variant: the entry handed out is not overwritten with INVALID_FRAME.
alloc_without_clear(fr, n) ==
    IF n = 0
    THEN [frames |-> fr, num_frames |-> n, ret |-> INVALID_FRAME]
    ELSE [frames |-> fr, num_frames |-> n - 1, ret |-> fr[n - 1]]

\* Variant: the top of the stack is cleared but the bottom entry is returned.
alloc_from_bottom(fr, n) ==
    IF n = 0
    THEN [frames |-> fr, num_frames |-> n, ret |-> INVALID_FRAME]
    ELSE [frames |-> [fr EXCEPT ![n - 1] = INVALID_FRAME],
          num_frames |-> n - 1,
          ret |-> fr[0]]

\* Variant: the frame is stored at the bottom of the stack.
free_at_bottom(fr, n, frame) ==
    IF n < NUM_FRAMES
    THEN [ok |-> TRUE, frames |-> [fr EXCEPT ![0] = frame], num_frames |-> n + 1]
    ELSE [ok |-> FALSE, frames |-> fr, num_frames |-> n]

\* Variant: the frame is stored but num_frames is not incremented.
free_without_count(fr, n, frame) ==
    IF n < NUM_FRAMES
    THEN [ok |-> TRUE, frames |-> [fr EXCEPT ![n] = frame], num_frames |-> n]
    ELSE [ok |-> FALSE, frames |-> fr, num_frames |-> n]

client_alloc_frame(fr, n) ==
    IF n = 0
    THEN [frames |-> fr, num_frames |-> n, ret |-> INVALID_FRAME]
    ELSE [frames |-> [fr EXCEPT ![n - 1] = INVALID_FRAME],
          num_frames |-> n - 1,
          ret |-> fr[n - 1]]

\* ok = FALSE: assert( client->num_frames < NUM_FRAMES ) failed.
client_free_frame(fr, n, frame) ==
    IF n < NUM_FRAMES
    THEN [ok |-> TRUE, frames |-> [fr EXCEPT ![n] = frame], num_frames |-> n + 1]
    ELSE [ok |-> FALSE, frames |-> fr, num_frames |-> n]

\* What a failed assertion leaves: abort() in a build with assertions, an
\* out-of-bounds store to frames[NUM_FRAMES] in a build with NDEBUG.
AssertOutcomes == {"aborted", "undefined"}

----------------------------------------------------------------------------
(* Rings.  client_t holds send_queue, complete_queue, receive_queue and    *)
(* fill_queue; all four are created with the default number of            *)
(* descriptors.  The primitives follow the ring contract: indices only     *)
(* grow, a slot is addressed by index modulo the capacity.                 *)

RingNames == {"send", "complete", "receive", "fill"}

EmptyRing == [producer |-> 0, consumer |-> 0,
              slots |-> [k \in 0 .. (NUM_DESCS - 1) |-> 0]]

\* Descriptors between the consumer index and the producer index.
Outstanding(r) == r.producer - r.consumer

\* reserve(n): how many slots are granted, and the first index granted.
\* Every reserve of the model asks for one slot, as the transmit sketch does.
xsk_ring_prod__reserve(r, n) ==
    [k |-> Min(n, NUM_DESCS - Outstanding(r)), idx |-> r.producer]

\* write(slot_index, descriptor)
ring_write(r, idx, d) == [r EXCEPT !.slots[idx % NUM_DESCS] = d]

\* submit(k): publish k written slots.
xsk_ring_prod__submit(r, k) == [r EXCEPT !.producer = @ + k]

\* peek(max): how many filled slots are available, and the first index.
xsk_ring_cons__peek(r, max) ==
    [k |-> Min(max, Outstanding(r)), idx |-> r.consumer]

\* read(slot_index): xsk_ring_cons__comp_addr and its siblings.
ring_read(r, idx) == r.slots[idx % NUM_DESCS]

\* release(k): hand k slots back to the producer.
xsk_ring_cons__release(r, k) == [r EXCEPT !.consumer = @ + k]

\* How often f occurs among the descriptors a ring holds.
RingCount(r, f) ==
    Cardinality({ k \in r.consumer .. (r.producer - 1) : ring_read(r, k) = f })

----------------------------------------------------------------------------
(* Initial state: main has not run; client is a zeroed static object. *)

\* static struct client_t client: no program, nothing attached or allocated.
NoClient == [program |-> "null", attached_native |-> FALSE,
             attached_skb |-> FALSE, buffer |-> FALSE, umem |-> FALSE,
             xsk |-> FALSE]

NoPeek == [n |-> 0, cons |-> 0, addrs |-> <<>>]

\* phases with one more event; an event repeated in a row is kept once.
Note(ph, e) == IF ph # <<>> /\ ph[Len(ph)] = e THEN ph ELSE Append(ph, e)

KernelIdle == [state |-> "idle", from |-> "send", to |-> "complete",
               desc |-> INVALID_FRAME]

Init ==
    /\ frames = ZeroFrames
    /\ num_frames = 0
    /\ rings = [q \in RingNames |-> EmptyRing]
    /\ pc = "main"
    /\ quit = FALSE
    /\ exit_code = -1
    /\ cleanups = 0
    /\ complete_index = 0
    /\ completed = 0
    /\ i = 0
    /\ tx_idx = 0
    /\ tx_addr = INVALID_FRAME
    /\ kpc = KernelIdle
    /\ log = [q \in RingNames |-> <<>>]
    /\ reads = [q \in RingNames |-> <<>>]
    /\ live = [f \in AllFrames |-> 0]
    /\ calls = <<>>
    /\ client = NoClient
    /\ init = [next |-> 1, run |-> <<>>, failed |-> "none"]
    /\ phases = <<>>
    /\ peeked = NoPeek
    /\ step_start = <<>>

----------------------------------------------------------------------------
(* main and client_init *)

\* The steps of client_init that can fail, in program order, and the frame
\* allocator initialisation that ends it.  "interface" is getifaddrs, the
\* search for the interface and if_nametoindex.
InitSteps == <<"geteuid", "interface", "open_file", "attach_native",
               "attach_skb", "setrlimit", "posix_memalign", "umem_create",
               "map_fd", "socket_create", "update_xskmap", "frames">>

\* Variant: the result of xsk_socket__update_xskmap is not checked.
init_step_fails_map_unchecked(s, ok) ==
    ~ok /\ s \notin {"attach_native", "frames", "update_xskmap"}

\* Does client_init return 1 at step s?  A failed native attach falls back
\* to skb mode; the frame loop cannot fail.
init_step_fails(s, ok) == ~ok /\ s \notin {"attach_native", "frames"}

\* The step after s: a successful native attach skips the skb attach.
init_step_next(k, s, ok) ==
    IF s = "attach_native" /\ ok THEN k + 2 ELSE k + 1

\* What step s leaves in client.
init_step_effect(c, s, ok) ==
    CASE s = "open_file" -> [c EXCEPT !.program = IF ok THEN "loaded" ELSE "error"]
      [] s = "attach_native" -> [c EXCEPT !.attached_native = ok]
      [] s = "attach_skb" -> [c EXCEPT !.attached_skb = ok]
      [] s = "posix_memalign" -> [c EXCEPT !.buffer = ok]
      [] s = "umem_create" -> [c EXCEPT !.umem = ok]
      [] s = "socket_create" -> [c EXCEPT !.xsk = ok]
      [] OTHER -> c

\* client_shutdown: with a program, detach it, close it, delete the socket
\* and the umem, free the buffer; without one, nothing.
client_shutdown(c) ==
    IF c.program # "null"
    THEN [program |-> "closed", attached_native |-> FALSE,
          attached_skb |-> FALSE, buffer |-> FALSE, umem |-> FALSE,
          xsk |-> FALSE]
    ELSE c

\* main: install the signal handlers, call client_init.
main_call_init ==
    /\ pc = "main"
    /\ pc' = "init"
    /\ UNCHANGED <<poolVars, rings, mainVars, updateVars, txVars, kpc, log, reads,
                   callerVars, initVars, histVars>>

\* One step of client_init: it succeeds or fails; a failure returns 1 at
\* once, the last step initialises the frame allocator and returns 0.
client_init_step ==
    /\ pc = "init"
    /\ \E ok \in BOOLEAN :
          LET s == InitSteps[init.next]
              fails == init_step_fails(s, ok)
          IN  /\ init' = [next |-> IF fails THEN init.next
                                   ELSE init_step_next(init.next, s, ok),
                          run |-> Append(init.run, [step |-> s,
                                                    ok |-> ok \/ s = "frames"]),
                          failed |-> IF fails THEN s ELSE "none"]
              /\ client' = init_step_effect(client, s, ok)
              /\ IF s = "frames"
                 THEN /\ frames' = InitFrames
                      /\ num_frames' = NUM_FRAMES
                      /\ pc' = "loop"
                 ELSE /\ UNCHANGED poolVars
                      /\ pc' = IF fails THEN "cleanup_fail" ELSE "init"
    /\ UNCHANGED <<rings, mainVars, updateVars, txVars, kpc, log, reads, callerVars,
                   histVars>>

\* Nothing is in flight: the Transmit and Completion rings are empty and
\* the kernel holds no descriptor.
Quiet ==
    /\ Outstanding(rings["send"]) = 0
    /\ Outstanding(rings["complete"]) = 0
    /\ kpc.state = "idle"

\* The loop condition of main, leaving the loop when stop holds.
loop_check(stop) ==
    /\ pc = "loop"
    /\ pc' = IF stop THEN "cleanup_quit" ELSE "update"
    /\ phases' = <<>>
    /\ step_start' = IF ~stop /\ Quiet
                     THEN <<[frames |-> frames, num_frames |-> num_frames,
                             rings |-> rings]>>
                     ELSE <<>>
    /\ UNCHANGED <<poolVars, rings, mainVars, updateVars, txVars, kpc, log, reads,
                   callerVars, initVars, peeked>>

\* Variant: while ( true )
main_loop_forever == loop_check(FALSE)

\* while ( !quit )
main_loop == loop_check(quit)

\* usleep( 1000000 )
main_sleep ==
    /\ pc = "sleep"
    /\ pc' = "loop"
    /\ peeked' = NoPeek
    /\ UNCHANGED <<poolVars, rings, mainVars, updateVars, txVars, kpc, log, reads,
                   callerVars, initVars, phases, step_start>>

\* cleanup(); return
main_cleanup ==
    /\ pc \in {"cleanup_fail", "cleanup_quit"}
    /\ cleanups' = cleanups + 1
    /\ exit_code' = IF pc = "cleanup_fail" THEN 1 ELSE 0
    /\ pc' = "exit"
    /\ client' = client_shutdown(client)
    /\ UNCHANGED <<poolVars, rings, quit, updateVars, txVars, kpc, log, reads,
                   callerVars, init, histVars>>

\* interrupt_handler / clean_shutdown_handler, once main has installed them.
signal_handler ==
    /\ pc \notin {"main", "exit", "aborted", "undefined", "pool"}
    /\ ~quit
    /\ quit' = TRUE
    /\ UNCHANGED <<poolVars, rings, pc, exit_code, cleanups, updateVars, txVars,
                   kpc, log, reads, callerVars, initVars, histVars>>

----------------------------------------------------------------------------
(* client_update.  The transmit path exists in the source only as the      *)
(* sketch in the comment at its top (allocate one frame, reserve one       *)
(* Transmit slot, write the descriptor, submit); it is modelled there, as  *)
(* the work of the external packet producer, so that frames leave the      *)
(* pool at all.  A packet whose reserve fails is dropped and its frame     *)
(* goes back to the pool.                                                  *)

\* ret = xsk_ring_prod__reserve( &tx, 1, &tx_idx ); if ( ret != 1 ) drop
transmit_reserve ==
    /\ pc = "update"
    /\ Len(log["send"]) < MaxPackets
    /\ LET a == client_alloc_frame(frames, num_frames)
           g == xsk_ring_prod__reserve(rings["send"], 1)
           back == client_free_frame(a.frames, a.num_frames, a.ret)
       IN  IF a.ret = INVALID_FRAME
           THEN UNCHANGED <<poolVars, pc, txVars, phases>>
           ELSE /\ phases' = Note(phases, "alloc")
                /\ IF g.k # 1
                   THEN /\ frames' = back.frames
                        /\ num_frames' = back.num_frames
                        /\ UNCHANGED <<pc, txVars>>
                   ELSE /\ frames' = a.frames
                        /\ num_frames' = a.num_frames
                        /\ tx_idx' = g.idx
                        /\ tx_addr' = a.ret
                        /\ pc' = "tx_write"
    /\ UNCHANGED <<rings, mainVars, updateVars, kpc, log, reads, callerVars,
                   initVars, peeked, step_start>>

\* xsk_ring_prod__tx_desc( &tx, tx_idx )->addr = addr
transmit_write ==
    /\ pc = "tx_write"
    /\ rings' = [rings EXCEPT !["send"] = ring_write(@, tx_idx, tx_addr)]
    /\ pc' = "tx_submit"
    /\ UNCHANGED <<poolVars, mainVars, updateVars, txVars, kpc, log, reads,
                   callerVars, initVars, histVars>>

\* xsk_ring_prod__submit( &tx, 1 )
transmit_submit ==
    /\ pc = "tx_submit"
    /\ rings' = [rings EXCEPT !["send"] = xsk_ring_prod__submit(@, 1)]
    /\ log' = [log EXCEPT !["send"] = Append(@, tx_addr)]
    /\ tx_idx' = 0
    /\ tx_addr' = INVALID_FRAME
    /\ pc' = "update"
    /\ phases' = Note(phases, "submit")
    /\ UNCHANGED <<poolVars, mainVars, updateVars, kpc, reads, callerVars,
                   initVars, peeked, step_start>>

\* sendto( xsk_socket__fd( client->xsk ), NULL, 0, MSG_DONTWAIT, NULL, 0 )
update_kick ==
    /\ pc = "update"
    /\ pc' = "peek"
    /\ phases' = Note(phases, "kick")
    /\ UNCHANGED <<poolVars, rings, mainVars, updateVars, txVars, kpc, log, reads,
                   callerVars, initVars, peeked, step_start>>

\* The peek of the Completion ring with result p, and what follows from it.
\* peeked keeps what the ring held then: the pool size, the consumer index
\* and the descriptors between the consumer and the producer index.
peek_completions(p) ==
    /\ pc = "peek"
    /\ LET r == rings["complete"]
       IN  /\ IF p.k > 0
              THEN /\ completed' = p.k
                   /\ complete_index' = p.idx
                   /\ i' = 0
                   /\ pc' = "drain"
              ELSE /\ UNCHANGED updateVars
                   /\ pc' = "sleep"
           /\ peeked' = [n |-> num_frames, cons |-> r.consumer,
                         addrs |-> [j \in 1 .. Outstanding(r) |->
                                       ring_read(r, r.consumer + j - 1)]]
    /\ phases' = Note(phases, "peek")
    /\ UNCHANGED <<poolVars, rings, mainVars, txVars, kpc, log, reads, callerVars,
                   initVars, step_start>>

\* Variant: a non-empty ring is taken to hold as many descriptors as were
\* asked for.
update_peek_asked ==
    peek_completions([k |-> IF Outstanding(rings["complete"]) > 0
                            THEN NUM_DESCS ELSE 0,
                      idx |-> rings["complete"].consumer])

\* Variant: the result of the peek is not looked at, every slot is drained.
update_peek_unchecked ==
    peek_completions([k |-> NUM_DESCS, idx |-> rings["complete"].consumer])

\* completed = xsk_ring_cons__peek( &complete_queue, NUM_DESCS, &complete_index )
update_peek == peek_completions(xsk_ring_cons__peek(rings["complete"], NUM_DESCS))

\* One iteration of for ( int i = 0; i < completed; i++ ): read the slot at
\* complete_index, advance complete_index, release the frame to the pool.
drain_one(limit, advance) ==
    /\ pc = "drain"
    /\ i < limit
    /\ LET addr == ring_read(rings["complete"], complete_index)
           r == client_free_frame(frames, num_frames, addr)
       IN  /\ reads' = [reads EXCEPT !["complete"] = Append(@, <<complete_index, addr>>)]
           /\ IF r.ok
              THEN /\ frames' = r.frames
                   /\ num_frames' = r.num_frames
                   /\ complete_index' = complete_index + advance
                   /\ i' = i + 1
                   /\ UNCHANGED <<pc, completed>>
              ELSE /\ pc' \in AssertOutcomes
                   /\ UNCHANGED <<poolVars, updateVars>>
    /\ phases' = Note(phases, "free")
    /\ UNCHANGED <<rings, mainVars, txVars, kpc, log, callerVars, initVars, peeked,
                   step_start>>

\* Variant: the loop runs once more than peek reported.
update_free_one_more == drain_one(completed + 1, 1)

\* Variant: complete_index is not advanced.
update_free_same_slot == drain_one(completed, 0)

\* client_free_frame( client, *xsk_ring_cons__comp_addr( &cq, complete_index++ ) )
update_free == drain_one(completed, 1)

\* After the loop: xsk_ring_cons__release( &complete_queue, count ).
release_completed(count) ==
    /\ pc = "drain"
    /\ i >= completed
    /\ rings' = [rings EXCEPT !["complete"] = xsk_ring_cons__release(@, count)]
    /\ complete_index' = 0
    /\ completed' = 0
    /\ i' = 0
    /\ pc' = "sleep"
    /\ phases' = Note(phases, "release")
    /\ UNCHANGED <<poolVars, mainVars, txVars, kpc, log, reads, callerVars,
                   initVars, peeked, step_start>>

\* Variant: releases the number of slots asked for, not the number peeked.
update_release_asked == release_completed(NUM_DESCS)

\* xsk_ring_cons__release( &complete_queue, completed )
update_release == release_completed(completed)

----------------------------------------------------------------------------
(* The counterparty.  The kernel consumes the Transmit ring and produces   *)
(* the Completion ring, and consumes the Fill ring and produces the        *)
(* Receive ring, while the socket exists.  It reads a published            *)
(* descriptor and writes it to a free slot of the destination ring, then   *)
(* publishes it; the descriptor leaves the source ring when it is          *)
(* published on the destination ring.                                      *)

KernelPaths == { <<"send", "complete">>, <<"fill", "receive">> }

\* The socket exists from xsk_socket__create to xsk_socket__delete.
SocketBound == client.xsk

kernel_write ==
    /\ SocketBound
    /\ kpc.state = "idle"
    /\ \E path \in KernelPaths :
          LET src == rings[path[1]]
              dst == rings[path[2]]
              p == xsk_ring_cons__peek(src, 1)
              g == xsk_ring_prod__reserve(dst, 1)
              d == ring_read(src, p.idx)
          IN  /\ p.k = 1
              /\ g.k = 1
              /\ reads' = [reads EXCEPT ![path[1]] = Append(@, <<p.idx, d>>)]
              /\ rings' = [rings EXCEPT ![path[2]] = ring_write(@, g.idx, d)]
              /\ kpc' = [state |-> "written", from |-> path[1], to |-> path[2],
                          desc |-> d]
    /\ UNCHANGED <<poolVars, pc, mainVars, updateVars, txVars, log, callerVars,
                   initVars, histVars>>

kernel_publish ==
    /\ SocketBound
    /\ kpc.state = "written"
    /\ rings' = [rings EXCEPT ![kpc.from] = xsk_ring_cons__release(@, 1),
                              ![kpc.to] = xsk_ring_prod__submit(@, 1)]
    /\ log' = [log EXCEPT ![kpc.to] = Append(@, kpc.desc)]
    /\ kpc' = KernelIdle
    /\ UNCHANGED <<poolVars, pc, mainVars, updateVars, txVars, reads, callerVars,
                   initVars, histVars>>

----------------------------------------------------------------------------
(* The program: main, client_update and the kernel. *)

Next ==
    \/ main_call_init
    \/ client_init_step
    \/ main_loop
    \/ main_sleep
    \/ main_cleanup
    \/ signal_handler
    \/ transmit_reserve
    \/ transmit_write
    \/ transmit_submit
    \/ update_kick
    \/ update_peek
    \/ update_free
    \/ update_release
    \/ kernel_write
    \/ kernel_publish

Spec == Init /\ [][Next]_vars

----------------------------------------------------------------------------
(* The frame allocator on its own: a caller makes any sequence of          *)
(* client_alloc_frame and client_free_frame calls on the pool as           *)
(* client_init leaves it.  A release may name any frame of the buffer,     *)
(* also one that is already free; calls[k].hit records that, and           *)
(* calls[k].was_live whether the frame was allocated at the call.          *)

PoolInit ==
    /\ frames = InitFrames
    /\ num_frames = NUM_FRAMES
    /\ rings = [q \in RingNames |-> EmptyRing]
    /\ pc = "pool"
    /\ quit = FALSE
    /\ exit_code = -1
    /\ cleanups = 0
    /\ complete_index = 0
    /\ completed = 0
    /\ i = 0
    /\ tx_idx = 0
    /\ tx_addr = INVALID_FRAME
    /\ kpc = KernelIdle
    /\ log = [q \in RingNames |-> <<>>]
    /\ reads = [q \in RingNames |-> <<>>]
    /\ live = [f \in AllFrames |-> 0]
    /\ calls = <<>>
    /\ client = NoClient
    /\ init = [next |-> 1, run |-> <<>>, failed |-> "none"]
    /\ phases = <<>>
    /\ peeked = NoPeek
    /\ step_start = <<>>

\* frame = client_alloc_frame( &client )
call_alloc ==
    /\ pc = "pool"
    /\ Len(calls) < MaxCalls
    /\ LET a == client_alloc_frame(frames, num_frames)
       IN  /\ frames' = a.frames
           /\ num_frames' = a.num_frames
           /\ live' = IF a.ret \in AllFrames
                      THEN [live EXCEPT ![a.ret] = @ + 1]
                      ELSE live
           /\ calls' = Append(calls,
                  [op |-> "alloc", frame |-> a.ret, pre |-> frames,
                   pre_n |-> num_frames, hit |-> FALSE, was_live |-> FALSE,
                   rejected |-> FALSE])
    /\ UNCHANGED <<rings, pc, mainVars, updateVars, txVars, kpc, log, reads,
                   initVars, histVars>>

\* client_free_frame( &client, f )
call_free ==
    /\ pc = "pool"
    /\ Len(calls) < MaxCalls
    /\ \E f \in AllFrames :
          LET r == client_free_frame(frames, num_frames, f)
          IN  /\ IF r.ok
                 THEN /\ frames' = r.frames
                      /\ num_frames' = r.num_frames
                      /\ pc' = pc
                 ELSE /\ pc' \in AssertOutcomes
                      /\ UNCHANGED poolVars
              /\ live' = [live EXCEPT ![f] = IF @ > 0 THEN @ - 1 ELSE 0]
              /\ calls' = Append(calls,
                     [op |-> "free", frame |-> f, pre |-> frames,
                      pre_n |-> num_frames, hit |-> (f \in FreeSet),
                      was_live |-> (live[f] > 0), rejected |-> ~r.ok])
    /\ UNCHANGED <<rings, mainVars, updateVars, txVars, kpc, log, reads,
                   initVars, histVars>>

PoolNext ==
    \/ call_alloc
    \/ call_free

PoolSpec == PoolInit /\ [][PoolNext]_vars

\* The last allocator call, and the one before it.
LastCall == calls[Len(calls)]

PrevCall == calls[Len(calls) - 1]

\* No call so far released a frame that was already free.
NoDoubleRelease == \A k \in 1 .. Len(calls) : ~calls[k].hit

----------------------------------------------------------------------------
(* Claims about the frame allocator, checked under PoolSpec. *)

\* C2: a release of a frame that is already in the free set is rejected and
\* leaves the free set and its size unchanged, and the free set never holds
\* the same frame twice.
DoubleReleaseRejected ==
    /\ \A f \in AllFrames : FreeCount(f) <= 1
    /\ (calls # <<>> /\ LastCall.op = "free" /\ LastCall.hit) =>
          /\ LastCall.rejected
          /\ FreeSet = FreeSetOf(LastCall.pre, LastCall.pre_n)
          /\ num_frames = LastCall.pre_n

\* C3: as long as no frame was released while it was already free, no frame
\* has two live allocations: allocate never returns a frame that is still
\* allocated.
NoDoubleAllocation ==
    NoDoubleRelease => \A f \in AllFrames : live[f] <= 1

\* A frame was released and allocated again while all others stay allocated.
NoDoubleAllocationWitness ==
    /\ NoDoubleRelease
    /\ Len(calls) >= NUM_FRAMES + 2
    /\ LastCall.op = "alloc"
    /\ \E k \in 1 .. Len(calls) : calls[k].op = "free"
    /\ \A f \in AllFrames : live[f] = 1

\* C4: allocate on an empty pool returns INVALID_FRAME and changes nothing;
\* on a non-empty pool it returns a free frame and removes exactly that one
\* occurrence; N allocations from the initial pool succeed and the next is
\* exhausted; the allocate after a release returns the released frame.
AllocExhaustion ==
    (calls # <<>> /\ LastCall.op = "alloc") =>
        /\ LastCall.pre_n = 0 =>
              /\ LastCall.frame = INVALID_FRAME
              /\ frames = LastCall.pre
              /\ num_frames = 0
        /\ LastCall.pre_n > 0 =>
              /\ LastCall.frame \in FreeSetOf(LastCall.pre, LastCall.pre_n)
              /\ num_frames = LastCall.pre_n - 1
              /\ \A f \in AllFrames :
                    FreeCount(f) = CountIn(LastCall.pre, LastCall.pre_n, f)
                                   - (IF f = LastCall.frame THEN 1 ELSE 0)
        /\ (\A k \in 1 .. Len(calls) : calls[k].op = "alloc") =>
              \A k \in 1 .. Len(calls) :
                 IF k <= NUM_FRAMES
                 THEN calls[k].frame \in AllFrames
                 ELSE calls[k].frame = INVALID_FRAME
        /\ (Len(calls) >= 2 /\ PrevCall.op = "free") =>
              LastCall.frame = PrevCall.frame

\* All N frames allocated, a further allocate exhausted, one frame released,
\* and the next allocate returned it.
AllocExhaustionWitness ==
    /\ Len(calls) = NUM_FRAMES + 3
    /\ \A k \in 1 .. (NUM_FRAMES + 1) : calls[k].op = "alloc"
    /\ calls[NUM_FRAMES + 1].frame = INVALID_FRAME
    /\ PrevCall.op = "free"
    /\ LastCall.op = "alloc"
    /\ LastCall.frame = PrevCall.frame

\* C5: allocate immediately followed by the release of the frame it
\* returned leaves the free set (and its size) exactly as it was before the
\* allocate.
AllocReleaseRoundTrip ==
    ( /\ Len(calls) >= 2
      /\ PrevCall.op = "alloc"
      /\ PrevCall.frame # INVALID_FRAME
      /\ LastCall.op = "free"
      /\ LastCall.frame = PrevCall.frame ) =>
        /\ ~LastCall.rejected
        /\ FreeSet = FreeSetOf(PrevCall.pre, PrevCall.pre_n)
        /\ num_frames = PrevCall.pre_n

\* An allocate/release pair made while other frames are allocated.
AllocReleaseRoundTripWitness ==
    /\ Len(calls) >= 3
    /\ PrevCall.op = "alloc"
    /\ PrevCall.frame # INVALID_FRAME
    /\ PrevCall.pre_n < NUM_FRAMES
    /\ LastCall.op = "free"
    /\ LastCall.frame = PrevCall.frame

----------------------------------------------------------------------------
(* Claims about the running program, checked under Spec. *)

\* main is between two statements of the poll loop that move no frame:
\* client_init succeeded, no transmit or drain is half done, and cleanup
\* has not started.
StepBoundary == pc \in {"loop", "update", "peek", "sleep"}

\* In how many places frame f is: the free set and the four rings.
TotalCount(f) ==
    FreeCount(f) + RingCount(rings["fill"], f) + RingCount(rings["receive"], f)
                 + RingCount(rings["send"], f) + RingCount(rings["complete"], f)

HeldTotal ==
    num_frames + Outstanding(rings["fill"]) + Outstanding(rings["receive"])
               + Outstanding(rings["send"]) + Outstanding(rings["complete"])

Aligned(a) == a % FRAME_SIZE = 0 /\ 0 <= a /\ a < NUM_FRAMES * FRAME_SIZE

\* C6: every offset in the free set, and every offset carried by a ring
\* descriptor (published, or written and about to be published), is a
\* multiple of FRAME_SIZE inside the buffer.
Alignment ==
    /\ \A k \in 0 .. (num_frames - 1) : Aligned(frames[k])
    /\ \A q \in RingNames :
          \A k \in rings[q].consumer .. (rings[q].producer - 1) :
             Aligned(ring_read(rings[q], k))
    /\ pc \in {"tx_write", "tx_submit"} => Aligned(tx_addr)
    /\ kpc.state = "written" => Aligned(kpc.desc)

\* The drain has just released a completed frame into the pool while
\* other frames are still on the rings.
AlignmentWitness ==
    /\ pc = "drain"
    /\ i > 0
    /\ num_frames > 0
    /\ Outstanding(rings["send"]) > 0

\* C7: every ring holds between 0 and NUM_DESCS descriptors; a slot granted
\* by reserve but not yet submitted fits as well; the consumer index never
\* passes the producer index.
RingCapacity ==
    /\ \A q \in RingNames :
          /\ rings[q].consumer <= rings[q].producer
          /\ Outstanding(rings[q]) <= NUM_DESCS
    /\ pc \in {"tx_write", "tx_submit"} =>
          Outstanding(rings["send"]) + 1 <= NUM_DESCS
    /\ kpc.state = "written" => Outstanding(rings[kpc.to]) + 1 <= NUM_DESCS

\* The Transmit ring is full after the Completion ring was drained once.
RingCapacityWitness ==
    /\ Outstanding(rings["send"]) = NUM_DESCS
    /\ rings["complete"].consumer > 0
    /\ rings["send"].producer > NUM_DESCS

RingFifo ==
    \A q \in RingNames :
       /\ Len(reads[q]) <= Len(log[q])
       /\ \A k \in 1 .. Len(reads[q]) :
             /\ reads[q][k][1] = k - 1
             /\ reads[q][k][2] = log[q][k]

\* One client_update drained a full Completion ring in a row, after the
\* ring indices wrapped, while a further packet waits on the Transmit ring.
RingFifoWitness ==
    /\ pc = "drain"
    /\ completed = NUM_DESCS
    /\ i = completed
    /\ Len(reads["complete"]) > NUM_DESCS
    /\ Outstanding(rings["send"]) > 0

-----------------------------------------------------------------------------
(* The order of the phases of one client_update, read from phases.         *)

Before(ph, a, k) == \E j \in 1 .. (k - 1) : ph[j] = a

\* C11: within one client_update the wake-up signal is never sent before
\* that step's completion reclaim.
StepOrdering ==
    \A k \in 1 .. Len(phases) :
        phases[k] = "kick" => Before(phases, "peek", k)

\* C12: at the end of every client_update the Fill ring is full or the
\* pool is empty.
FillReplenished ==
    pc = "sleep" =>
        \/ Outstanding(rings["fill"]) = NUM_DESCS
        \/ num_frames = 0

-----------------------------------------------------------------------------
(* The poll loop under the scheduling of the process: its one thread keeps *)
(* running, usleep returns.  Signals and the kernel are under no           *)
(* obligation.                                                             *)

MainStep ==
    \/ main_call_init
    \/ client_init_step
    \/ main_loop
    \/ main_sleep
    \/ main_cleanup
    \/ transmit_reserve
    \/ transmit_write
    \/ transmit_submit
    \/ update_kick
    \/ update_peek
    \/ update_free
    \/ update_release

LiveSpec == Init /\ [][Next]_vars /\ WF_vars(MainStep)

\* From the peek to the end of the loop iteration: the first i descriptors
\* the ring held at the peek are on the pool, above what it held, in ring
\* order; each was read once, at its slot; the consumer index moves only
\* with the release, by the number peeked.
ReclaimedSoFar(done) ==
    /\ done <= Len(peeked.addrs)
    /\ num_frames = peeked.n + done
    /\ \A j \in 1 .. done :
          /\ frames[peeked.n + j - 1] = peeked.addrs[j]
          /\ reads["complete"][Len(reads["complete"]) - done + j]
                 = <<peeked.cons + j - 1, peeked.addrs[j]>>

CompletionReclaimStep ==
    /\ Len(peeked.addrs) <= NUM_DESCS
    /\ pc = "drain" =>
          /\ completed = Len(peeked.addrs)
          /\ ReclaimedSoFar(i)
          /\ rings["complete"].consumer = peeked.cons
    /\ pc = "sleep" =>
          /\ ReclaimedSoFar(Len(peeked.addrs))
          /\ rings["complete"].consumer = peeked.cons + Len(peeked.addrs)

\* C14: a client_update whose peek of the Completion ring reports k
\* descriptors frees exactly those k frames, in ring order, the pool grows
\* by k, and the consumer index advances by k after the reads (by nothing
\* when k = 0); while the poll loop runs, every frame on the Completion
\* ring returns to the pool.
CompletionReclaim ==
    /\ []CompletionReclaimStep
    /\ \A f \in AllFrames :
          (RingCount(rings["complete"], f) > 0) ~> (FreeCount(f) > 0 \/ quit)

\* A client_update has drained a full Completion ring after the ring
\* indices wrapped.
CompletionReclaimWitness ==
    /\ pc = "sleep"
    /\ Len(peeked.addrs) = NUM_DESCS
    /\ peeked.cons >= NUM_DESCS
    /\ num_frames = peeked.n + NUM_DESCS

-----------------------------------------------------------------------------
(* client_init and what main does with its result.                         *)

\* The loop of main, client_update included.
InLoop == pc \in {"loop", "update", "tx_write", "tx_submit", "peek", "drain",
                  "sleep", "cleanup_quit"}

\* The steps client_init has run all succeeded; a native attach may have
\* failed when the skb attach that follows it succeeded.
AllStepsSucceeded(run) ==
    /\ \A k \in 1 .. Len(run) :
          \/ run[k].ok
          \/ /\ run[k].step = "attach_native"
             /\ k < Len(run)
             /\ run[k + 1] = [step |-> "attach_skb", ok |-> TRUE]
    /\ \A k \in 1 .. Len(InitSteps) :
          \/ \E j \in 1 .. Len(run) : run[j].step = InitSteps[k]
          \/ /\ InitSteps[k] = "attach_skb"
             /\ \E j \in 1 .. Len(run) :
                   run[j] = [step |-> "attach_native", ok |-> TRUE]

\* After a failed step: it is the last one run, the pool was never
\* initialised, client_update was never called, main goes to cleanup and
\* exits with 1.
StartupFailed ==
    init.failed # "none" =>
        /\ init.run[Len(init.run)] = [step |-> init.failed, ok |-> FALSE]
        /\ frames = ZeroFrames
        /\ num_frames = 0
        /\ phases = <<>>
        /\ \/ pc = "cleanup_fail" /\ cleanups = 0
           \/ pc = "exit" /\ cleanups = 1 /\ exit_code = 1

\* The return of client_init: 1 straight after the failed step, 0 after
\* every step succeeded, the pool then holding all NUM_FRAMES frames.
InitReturn ==
    (pc = "init" /\ pc' # "init") =>
        IF init'.failed # "none"
        THEN pc' = "cleanup_fail"
        ELSE /\ pc' = "loop"
             /\ AllStepsSucceeded(init'.run)
             /\ num_frames' = NUM_FRAMES
             /\ FreeSetOf(frames', num_frames') = AllFrames

\* C16: a failed initialisation step makes client_init return non-zero with
\* no later step run, the pool uninitialised and the poll loop never
\* entered, cleanup runs once and the exit status is 1; client_init returns
\* 0 only after every step succeeded, with all NUM_FRAMES frames in the pool.
StartupFailureFatal ==
    /\ [](StartupFailed /\ (InLoop => init.failed = "none"
                                       /\ AllStepsSucceeded(init.run)))
    /\ [][InitReturn]_vars

\* The last step that can fail did, after the fallback to skb mode: main
\* has cleaned up and left with status 1.
StartupFailureFatalWitness ==
    /\ pc = "exit"
    /\ init.failed = "update_xskmap"
    /\ \E j \in 1 .. Len(init.run) :
          init.run[j] = [step |-> "attach_skb", ok |-> TRUE]
    /\ cleanups = 1
    /\ exit_code = 1
    /\ client.program = "closed"

-----------------------------------------------------------------------------
(* The wake-up signal without work.                                        *)

\* The current client_update began with nothing in flight and has so far
\* only sent the wake-up signal and peeked.
OnlySignals ==
    /\ step_start # <<>>
    /\ \A k \in 1 .. Len(phases) : phases[k] \in {"kick", "peek"}

\* The sendto of client_update, sent while the Transmit ring is empty.
IdleKick ==
    /\ pc = "update"
    /\ pc' = "peek"
    /\ Outstanding(rings["send"]) = 0

\* C17: the wake-up signal sent while the Transmit ring is empty does not
\* block and changes neither the pool nor any ring; a client_update that
\* only signals, with nothing submitted and the Completion ring empty,
\* leaves the pool and the rings as they were.
WakeupNoOp ==
    /\ [](pc = "update" => ENABLED update_kick)
    /\ [][IdleKick => UNCHANGED <<poolVars, rings>>]_vars
    /\ [](OnlySignals =>
             /\ pc \in {"loop", "update", "peek", "sleep"}
             /\ frames = step_start[1].frames
             /\ num_frames = step_start[1].num_frames
             /\ rings = step_start[1].rings)

\* A client_update that only signalled has ended, after earlier traffic
\* went round the Transmit ring.
WakeupNoOpWitness ==
    /\ pc = "sleep"
    /\ step_start # <<>>
    /\ phases = <<"kick", "peek">>
    /\ rings["send"].producer > NUM_DESCS
    /\ rings = step_start[1].rings

-----------------------------------------------------------------------------
(* The frame stack under correct use.                                      *)

\* Every release so far was of a frame allocated and not yet released.
OnlyLiveFreed ==
    \A k \in 1 .. Len(calls) : calls[k].op = "free" => calls[k].was_live

\* C18: while only allocated, not yet freed frames are freed, num_frames is
\* in 0 .. NUM_FRAMES, frames[0 .. num_frames) holds pairwise distinct valid
\* frame offsets, every entry from num_frames on is INVALID_FRAME, and
\* client_alloc_frame returned INVALID_FRAME only with num_frames = 0.
PoolStackInvariant ==
    OnlyLiveFreed =>
        /\ num_frames \in 0 .. NUM_FRAMES
        /\ \A a \in 0 .. (num_frames - 1) :
              /\ frames[a] \in AllFrames
              /\ frames[a] # INVALID_FRAME
              /\ \A b \in 0 .. (num_frames - 1) : a # b => frames[a] # frames[b]
        /\ \A a \in num_frames .. (NUM_FRAMES - 1) : frames[a] = INVALID_FRAME
        /\ \A k \in 1 .. Len(calls) :
              (calls[k].op = "alloc" /\ calls[k].frame = INVALID_FRAME)
                  => calls[k].pre_n = 0

\* The pool was emptied, one more allocation returned INVALID_FRAME, and
\* frames came back in an order other than the one they left in.
PoolStackInvariantWitness ==
    /\ OnlyLiveFreed
    /\ \E k \in 1 .. Len(calls) :
          calls[k].op = "alloc" /\ calls[k].frame = INVALID_FRAME
    /\ LastCall.op = "free"
    /\ num_frames >= 2
    /\ frames[0] # InitFrames[0]

-----------------------------------------------------------------------------
(* The assertion of client_free_frame in the poll loop.                    *)

\* C19: in the poll loop after a successful client_init, with a kernel
\* that completes only frames submitted on the Transmit ring, the assertion
\* num_frames < NUM_FRAMES holds at every call of client_free_frame: no
\* assertion fails, the pool never holds more than NUM_FRAMES frames and
\* frames[] is written only within its bounds.
FreeAssertionSafe ==
    /\ pc \notin AssertOutcomes
    /\ num_frames <= NUM_FRAMES
    /\ DOMAIN frames = FrameIndex
    /\ (pc = "drain" /\ i < completed) => num_frames < NUM_FRAMES

\* client_free_frame is about to take the frame that fills the pool again,
\* after earlier completions were drained.
FreeAssertionSafeWitness ==
    /\ pc = "drain"
    /\ i < completed
    /\ num_frames = NUM_FRAMES - 1
    /\ Len(reads["complete"]) >= NUM_DESCS

-----------------------------------------------------------------------------
(* Shutdown on a signal.                                                   *)

\* C20, as stated: once a handler has set quit, cleanup runs once and the
\* process exits with status 0.
SignalledExitStatus ==
    (quit /\ pc = "exit") => (cleanups = 1 /\ exit_code = 0)

\* The loop condition read with quit set leaves the loop.
LeavesLoop == (quit /\ pc = "loop") => pc' \in {"loop", "cleanup_quit"}

\* How main ends: after a failed client_init with status 1, otherwise out
\* of the loop, on quit, with status 0; cleanup has run once either way.
ExitStatus ==
    /\ cleanups <= 1
    /\ pc = "cleanup_quit" => quit /\ cleanups = 0
    /\ pc = "exit" =>
          /\ cleanups = 1
          /\ client.program \in {"null", "closed"}
          /\ IF init.failed = "none"
             THEN quit /\ exit_code = 0
             ELSE exit_code = 1

\* C20: once a handler has set quit it stays set; the loop condition read
\* next ends the loop, so at most the client_update in progress completes;
\* cleanup then runs once and, client_init having succeeded, main returns
\* 0, whatever is still on the rings.
ShutdownOnSignal ==
    /\ [][quit => quit']_vars
    /\ [][LeavesLoop]_vars
    /\ []ExitStatus
    /\ quit ~> (pc = "exit")

\* main returned 0 on a signal while frames were on the Transmit or the
\* Completion ring, not in the pool.
ShutdownOnSignalWitness ==
    /\ pc = "exit"
    /\ quit
    /\ exit_code = 0
    /\ cleanups = 1
    /\ num_frames < NUM_FRAMES
    /\ Outstanding(rings["send"]) > 0
    /\ Outstanding(rings["complete"]) > 0

=============================================================================
